---- MODULE Spec2Model ----
(***************************************************************************)
(* Saree Sanctuary API: the request handlers of main.py over the document  *)
(* store, with the schemas of schemas.py.                                  *)
(*                                                                         *)
(* Encoding of Python values:                                              *)
(*   - an Optional[T] value is a sequence of length <= 1: None is <<>>,    *)
(*     a present value v is <<v>>;                                         *)
(*   - free text (title, description, q) is a sequence of characters, so   *)
(*     that the $regex search can be computed on it;                       *)
(*   - other strings (slugs, saree_type, color, ...) are TLA+ strings;     *)
(*   - a document is a function from field names to values.                *)
(***************************************************************************)
EXTENDS Integers, Sequences, FiniteSets, TLC

VARIABLES db, store, seed, resp

vars == <<db, store, seed, resp>>

None == <<>>
Some(v) == <<v>>

Kinds == {"category", "vendor", "product", "review", "order"}

\* ------------------------------------------------------------------ bounds

\* Documents in the store up to which create requests of any payload are served.
MaxDocs == 2
\* Documents of the embedded kind in the specifications that exercise the cap of
\* an embedded list.
MaxStitch == 52

\* --------------------------------------------------------- program constants

ReviewsCap == 50
ProductsCap == 50
LimitMin == 1
LimitMax == 100

\* ------------------------------------------------------------------ schemas

Required(kind) ==
    CASE kind = "category" -> {"name", "slug"}
      [] kind = "vendor"   -> {"store_name", "slug"}
      [] kind = "product"  -> {"title", "slug", "vendor_slug", "price_in_paise", "saree_type"}
      [] kind = "review"   -> {"product_slug", "rating"}
      [] kind = "order"    -> {"buyer_name", "buyer_email", "vendor_slug", "items", "total_in_paise"}

Defaults(kind) ==
    CASE kind = "category" -> <<>>
      [] kind = "vendor"   -> [logo_url |-> None, about |-> None, verified |-> FALSE,
                               membership_status |-> "active",
                               membership_renewal_date |-> None, region |-> None]
      [] kind = "product"  -> [description |-> None, color |-> None, material |-> None,
                               occasion |-> None, care |-> None, images |-> <<>>,
                               stock |-> 10]
      [] kind = "review"   -> [comment |-> None, author_name |-> None]
      [] kind = "order"    -> [status |-> "pending"]

Fields(kind) == Required(kind) \cup DOMAIN Defaults(kind)

\* Fields declared Optional[...] in the schemas.
OptionalFields ==
    {"logo_url", "about", "membership_renewal_date", "region", "description",
     "color", "material", "occasion", "care", "comment", "author_name"}

MembershipStatuses == {"active", "expired"}
OrderStatuses == {"pending", "paid", "dispatched", "delivered", "refunded"}

\* FieldOk with the upper bound of rating off by one.
FieldOkRatingUpTo6(kind, f, v) ==
    CASE kind = "product" /\ f = "price_in_paise" -> v >= 0
      [] kind = "product" /\ f = "stock"          -> v >= 0
      [] kind = "review"  /\ f = "rating"         -> v >= 1 /\ v <= 6
      [] kind = "order"   /\ f = "total_in_paise" -> v >= 0
      [] kind = "order"   /\ f = "status"         -> v \in {"pending", "paid", "dispatched", "delivered", "refunded"}
      [] kind = "vendor"  /\ f = "membership_status" -> v \in {"active", "expired"}
      [] OTHER -> TRUE

\* The constraints Field(ge=..., le=...) and Literal[...] put on a present field.
FieldOk(kind, f, v) ==
    CASE kind = "product" /\ f = "price_in_paise" -> v >= 0
      [] kind = "product" /\ f = "stock"          -> v >= 0
      [] kind = "review"  /\ f = "rating"         -> v >= 1 /\ v <= 5
      [] kind = "order"   /\ f = "total_in_paise" -> v >= 0
      [] kind = "order"   /\ f = "status"         -> v \in OrderStatuses
      [] kind = "vendor"  /\ f = "membership_status" -> v \in MembershipStatuses
      [] OTHER -> TRUE

Missing(kind, p) == Required(kind) \ DOMAIN p

Violating(kind, p) == {f \in DOMAIN p \cap Fields(kind) : ~FieldOk(kind, f, p[f])}

\* Pydantic validation of a request body: the failing fields, or the document
\* with every schema field, defaults filled in, unknown fields dropped.
Validate(kind, p) ==
    IF Missing(kind, p) \cup Violating(kind, p) # {}
    THEN [ok |-> FALSE, fields |-> Missing(kind, p) \cup Violating(kind, p)]
    ELSE [ok |-> TRUE,
          doc |-> [f \in Fields(kind) |->
                      IF f \in DOMAIN p THEN p[f] ELSE Defaults(kind)[f]]]

\* ------------------------------------------------------------ text and regex

LowerMap ==
    ("A" :> "a") @@ ("B" :> "b") @@ ("C" :> "c") @@ ("D" :> "d") @@ ("E" :> "e") @@
    ("F" :> "f") @@ ("G" :> "g") @@ ("H" :> "h") @@ ("I" :> "i") @@ ("J" :> "j") @@
    ("K" :> "k") @@ ("L" :> "l") @@ ("M" :> "m") @@ ("N" :> "n") @@ ("O" :> "o") @@
    ("P" :> "p") @@ ("Q" :> "q") @@ ("R" :> "r") @@ ("S" :> "s") @@ ("T" :> "t") @@
    ("U" :> "u") @@ ("V" :> "v") @@ ("W" :> "w") @@ ("X" :> "x") @@ ("Y" :> "y") @@
    ("Z" :> "z")

Lower(c) == IF c \in DOMAIN LowerMap THEN LowerMap[c] ELSE c

\* One position of a pattern against one character, under option "i": the
\* metacharacter "." matches any character, any other character itself.
RegexCharMatch(p, c) == p = "." \/ Lower(p) = Lower(c)

\* {"$regex": pat, "$options": "i"}: the pattern matches somewhere in the text.
RegexSearch(pat, text) ==
    \E i \in 0..(Len(text) - Len(pat)) :
        \A j \in 1..Len(pat) : RegexCharMatch(pat[j], text[i + j])

\* The text of a field for a regex clause: <<text>>, or <<>> when the field is
\* absent or null (a regex never matches those).
TextOf(d, f) ==
    IF f \notin DOMAIN d THEN None
    ELSE IF f \in OptionalFields THEN d[f] ELSE Some(d[f])

RegexClause(d, c) ==
    /\ TextOf(d, c.field) # None
    /\ RegexSearch(c.regex, TextOf(d, c.field)[1])

\* {field: value}: the field is present and equal to the value.
EqClause(d, f, v) ==
    /\ f \in DOMAIN d
    /\ IF f \in OptionalFields THEN d[f] = Some(v) ELSE d[f] = v

\* A filter_dict: every key is a clause, "$or" a disjunction of regex clauses.
Matches(d, filter) ==
    \A k \in DOMAIN filter :
        IF k = "$or"
        THEN \E n \in 1..Len(filter[k]) : RegexClause(d, filter[k][n])
        ELSE EqClause(d, k, filter[k])

Take(s, n) == IF Len(s) <= n THEN s ELSE SubSeq(s, 1, n)

\* -------------------------------------------------------------- the store

ObjectId(kind, n) == <<kind, n>>

\* str(ObjectId)
ObjectIdStr(oid) == oid[1] \o "-" \o ToString(oid[2])

\* database.create_document on an initialized store: the stored document is the
\* given one plus a fresh _id.
Inserted(kind, doc) ==
    doc @@ ("_id" :> ObjectId(kind, Len(store[kind]) + 1))

create_document(kind, doc) ==
    store' = [store EXCEPT ![kind] = Append(@, Inserted(kind, doc))]

\* database.get_documents: the matching documents in insertion order, at most limit.
get_documents(kind, filter, limit) ==
    Take(SelectSeq(store[kind], LAMBDA d : Matches(d, filter)), limit)

\* Normalize that copies the identifier and forgets to pop "_id".
NormalizeKeeping(d) ==
    IF "_id" \in DOMAIN d
    THEN [f \in DOMAIN d \cup {"id"} |->
             IF f = "id" THEN ObjectIdStr(d["_id"]) ELSE d[f]]
    ELSE d

\* if "_id" in d: d["id"] = str(d.pop("_id"))
Normalize(d) ==
    IF "_id" \in DOMAIN d
    THEN [f \in (DOMAIN d \ {"_id"}) \cup {"id"} |->
             IF f = "id" THEN ObjectIdStr(d["_id"]) ELSE d[f]]
    ELSE d

NormalizeAll(docs) == [n \in 1..Len(docs) |-> Normalize(docs[n])]

\* -------------------------------------------------------------- responses

Ok(op, args, out) == [op |-> op, args |-> args, err |-> "none", out |-> out]
Fail(op, args, err) == [op |-> op, args |-> args, err |-> err, out |-> <<>>]

\* Query(..., ge=1, le=100)
LimitOk(limit) == limit >= LimitMin /\ limit <= LimitMax

\* `if x:` for an Optional[str] parameter: neither None nor empty.
Truthy(x, empty) == x # None /\ x[1] # empty

\* ---------------------------------------------------------------- products

\* filter_dict of list_products
ProductFilter(q, saree_type, color, material, occasion) ==
    (IF Truthy(q, <<>>)
        THEN "$or" :> << [field |-> "title", regex |-> q[1]],
                         [field |-> "description", regex |-> q[1]] >>
        ELSE <<>>)
    @@ (IF Truthy(saree_type, "") THEN "saree_type" :> saree_type[1] ELSE <<>>)
    @@ (IF Truthy(color, "") THEN "color" :> color[1] ELSE <<>>)
    @@ (IF Truthy(material, "") THEN "material" :> material[1] ELSE <<>>)
    @@ (IF Truthy(occasion, "") THEN "occasion" :> occasion[1] ELSE <<>>)

list_products(q, saree_type, color, material, occasion, limit) ==
    LET args == [q |-> q, saree_type |-> saree_type, color |-> color,
                 material |-> material, occasion |-> occasion, limit |-> limit]
    IN  /\ resp' =
              IF ~LimitOk(limit) THEN Fail("list_products", args, "ValidationError")
              ELSE IF ~db THEN Ok("list_products", args, <<>>)
              ELSE Ok("list_products", args,
                      NormalizeAll(get_documents("product",
                          ProductFilter(q, saree_type, color, material, occasion),
                          limit)))
        /\ UNCHANGED <<db, store, seed>>

\* get_product that embeds every review of the collection, whatever it references.
get_product_all_reviews(slug) ==
    LET args == [slug |-> slug]
        docs == get_documents("product", [slug |-> slug], 1)
        reviews == get_documents("review", <<>>, ReviewsCap)
    IN  /\ resp' =
              IF ~db THEN Fail("get_product", args, "StoreUnavailable")
              ELSE IF docs = <<>> THEN Fail("get_product", args, "NotFound")
              ELSE Ok("get_product", args,
                      ("reviews" :> NormalizeAll(reviews)) @@ Normalize(docs[1]))
        /\ UNCHANGED <<db, store, seed>>

get_product(slug) ==
    LET args == [slug |-> slug]
        docs == get_documents("product", [slug |-> slug], 1)
        reviews == get_documents("review", [product_slug |-> slug], ReviewsCap)
    IN  /\ resp' =
              IF ~db THEN Fail("get_product", args, "StoreUnavailable")
              ELSE IF docs = <<>> THEN Fail("get_product", args, "NotFound")
              ELSE Ok("get_product", args,
                      ("reviews" :> NormalizeAll(reviews)) @@ Normalize(docs[1]))
        /\ UNCHANGED <<db, store, seed>>

\* Create without the handler's `if db is None` check.
CreateUnchecked(op, kind, body, room, extra) ==
    LET v == Validate(kind, body)
    IN  IF ~v.ok
        THEN /\ resp' = Fail(op, body, "ValidationError")
             /\ UNCHANGED <<db, store, seed>>
        ELSE /\ room
             /\ create_document(kind, v.doc)
             /\ resp' = Ok(op, body,
                           [id |-> ObjectIdStr(Inserted(kind, v.doc)["_id"])]
                               @@ [f \in extra |-> v.doc[f]])
             /\ UNCHANGED <<db, seed>>

\* A create handler: the body is validated before the handler runs; the handler
\* refuses without a store, else inserts and returns the new identifier.
Create(op, kind, body, room, extra) ==
    LET v == Validate(kind, body)
    IN  IF ~v.ok
        THEN /\ resp' = Fail(op, body, "ValidationError")
             /\ UNCHANGED <<db, store, seed>>
        ELSE IF ~db
        THEN /\ resp' = Fail(op, body, "StoreUnavailable")
             /\ UNCHANGED <<db, store, seed>>
        ELSE /\ room
             /\ create_document(kind, v.doc)
             /\ resp' = Ok(op, body,
                           [id |-> ObjectIdStr(Inserted(kind, v.doc)["_id"])]
                               @@ [f \in extra |-> v.doc[f]])
             /\ UNCHANGED <<db, seed>>

\* The fields of the stored document that a create response repeats.
NoExtra == {}

create_product(body, room) == Create("create_product", "product", body, room, NoExtra)

\* ----------------------------------------------------------------- vendors

\* list_vendors refusing, as the single-document reads do, without a store.
list_vendors_refusing(limit) ==
    LET args == [limit |-> limit]
    IN  /\ resp' =
              IF ~LimitOk(limit) THEN Fail("list_vendors", args, "ValidationError")
              ELSE IF ~db THEN Fail("list_vendors", args, "StoreUnavailable")
              ELSE Ok("list_vendors", args,
                      NormalizeAll(get_documents("vendor", <<>>, limit)))
        /\ UNCHANGED <<db, store, seed>>

list_vendors(limit) ==
    LET args == [limit |-> limit]
    IN  /\ resp' =
              IF ~LimitOk(limit) THEN Fail("list_vendors", args, "ValidationError")
              ELSE IF ~db THEN Ok("list_vendors", args, <<>>)
              ELSE Ok("list_vendors", args,
                      NormalizeAll(get_documents("vendor", <<>>, limit)))
        /\ UNCHANGED <<db, store, seed>>

\* get_vendor that embeds every matching product, without the cap.
get_vendor_uncapped(slug) ==
    LET args == [slug |-> slug]
        docs == get_documents("vendor", [slug |-> slug], 1)
        products == get_documents("product", [vendor_slug |-> slug],
                                  Len(store["product"]))
    IN  /\ resp' =
              IF ~db THEN Fail("get_vendor", args, "StoreUnavailable")
              ELSE IF docs = <<>> THEN Fail("get_vendor", args, "NotFound")
              ELSE Ok("get_vendor", args,
                      ("products" :> NormalizeAll(products)) @@ Normalize(docs[1]))
        /\ UNCHANGED <<db, store, seed>>

get_vendor(slug) ==
    LET args == [slug |-> slug]
        docs == get_documents("vendor", [slug |-> slug], 1)
        products == get_documents("product", [vendor_slug |-> slug], ProductsCap)
    IN  /\ resp' =
              IF ~db THEN Fail("get_vendor", args, "StoreUnavailable")
              ELSE IF docs = <<>> THEN Fail("get_vendor", args, "NotFound")
              ELSE Ok("get_vendor", args,
                      ("products" :> NormalizeAll(products)) @@ Normalize(docs[1]))
        /\ UNCHANGED <<db, store, seed>>

create_vendor(body, room) == Create("create_vendor", "vendor", body, room, NoExtra)

\* ----------------------------------------------------------------- reviews

list_reviews(product_slug, limit) ==
    LET args == [product_slug |-> product_slug, limit |-> limit]
    IN  /\ resp' =
              IF ~LimitOk(limit) THEN Fail("list_reviews", args, "ValidationError")
              ELSE IF ~db THEN Ok("list_reviews", args, <<>>)
              ELSE Ok("list_reviews", args,
                      NormalizeAll(get_documents("review",
                          [product_slug |-> product_slug], limit)))
        /\ UNCHANGED <<db, store, seed>>

create_review(body, room) == Create("create_review", "review", body, room, NoExtra)

\* ------------------------------------------------------------------ orders

OrderExtra == {"status"}

\* create_order that also takes the ordered quantities off the products' stock.
create_order_adjusting_stock(body, room) ==
    LET v == Validate("order", body)
        ordered(slug) ==
            IF \E n \in 1..Len(v.doc.items) : v.doc.items[n].product_slug = slug
            THEN 1 ELSE 0
    IN  IF ~v.ok
        THEN /\ resp' = Fail("create_order", body, "ValidationError")
             /\ UNCHANGED <<db, store, seed>>
        ELSE IF ~db
        THEN /\ resp' = Fail("create_order", body, "StoreUnavailable")
             /\ UNCHANGED <<db, store, seed>>
        ELSE /\ room
             /\ store' = [store EXCEPT
                    !["order"] = Append(@, Inserted("order", v.doc)),
                    !["product"] = [n \in 1..Len(@) |->
                        [@[n] EXCEPT !["stock"] = @ - ordered(store["product"][n]["slug"])]]]
             /\ resp' = Ok("create_order", body,
                           [id |-> ObjectIdStr(Inserted("order", v.doc)["_id"])]
                               @@ [f \in OrderExtra |-> v.doc[f]])
             /\ UNCHANGED <<db, seed>>

create_order(body, room) == Create("create_order", "order", body, room, OrderExtra)

\* -------------------------------------------------------------- categories

DefaultCategories ==
    << [name |-> "Banarasi", slug |-> "banarasi"],
       [name |-> "Kanjivaram", slug |-> "kanjivaram"],
       [name |-> "Cotton", slug |-> "cotton"],
       [name |-> "Silk", slug |-> "silk"],
       [name |-> "Organza", slug |-> "organza"] >>

list_categories(limit) ==
    LET args == [limit |-> limit]
    IN  /\ resp' =
              IF ~LimitOk(limit) THEN Fail("list_categories", args, "ValidationError")
              ELSE IF ~db THEN Ok("list_categories", args, DefaultCategories)
              ELSE Ok("list_categories", args,
                      NormalizeAll(get_documents("category", <<>>, limit)))
        /\ UNCHANGED <<db, store, seed>>

\* -------------------------------------------------------------------- seed

SeedKinds == <<"category", "vendor", "product", "review">>

\* The key of `created` that counts a kind.
Plural(kind) ==
    CASE kind = "category" -> "categories"
      [] kind = "vendor"   -> "vendors"
      [] kind = "product"  -> "products"
      [] kind = "review"   -> "reviews"

SampleVendors ==
    << [store_name |-> "Varanasi Weaves", slug |-> "varanasi-weaves",
        about |-> Some("Handwoven Banarasi sarees."), verified |-> TRUE,
        region |-> Some("Varanasi")],
       [store_name |-> "Kanjivaram Katha", slug |-> "kanjivaram-katha",
        about |-> Some("Traditional Kanjivaram silk."), verified |-> TRUE,
        region |-> Some("Kanchipuram")],
       [store_name |-> "Cotton Looms", slug |-> "cotton-looms",
        about |-> Some("Breathable cotton sarees."), verified |-> FALSE,
        region |-> Some("Coimbatore")] >>

RoyalBanarasiBrocade ==
    <<"R","o","y","a","l"," ","B","a","n","a","r","a","s","i"," ","B","r","o","c","a","d","e">>
RichZariWork ==
    <<"R","i","c","h"," ","z","a","r","i"," ","w","o","r","k"," ","w","i","t","h"," ","t","r","a","d","i","t","i","o","n","a","l"," ","m","o","t","i","f","s",".">>
ClassicKanjivaramGold ==
    <<"C","l","a","s","s","i","c"," ","K","a","n","j","i","v","a","r","a","m"," ","G","o","l","d">>
PureSilk ==
    <<"P","u","r","e"," ","s","i","l","k"," ","w","i","t","h"," ","g","o","l","d"," ","b","o","r","d","e","r",".">>
SummerBreezeCotton ==
    <<"S","u","m","m","e","r"," ","B","r","e","e","z","e"," ","C","o","t","t","o","n">>
LightweightCotton ==
    <<"L","i","g","h","t","w","e","i","g","h","t"," ","c","o","t","t","o","n"," ","s","a","r","e","e",".">>

SampleProducts ==
    << [title |-> RoyalBanarasiBrocade, slug |-> "royal-banarasi-brocade",
        description |-> Some(RichZariWork), vendor_slug |-> "varanasi-weaves",
        price_in_paise |-> 899900, saree_type |-> "Banarasi",
        color |-> Some("Maroon"), material |-> Some("Silk"),
        occasion |-> Some("Wedding"), care |-> Some("Dry clean only"),
        images |-> <<"https://images.unsplash.com/photo-1603575448894-0474f35f9f1b?q=80&w=1200&auto=format&fit=crop">>,
        stock |-> 8],
       [title |-> ClassicKanjivaramGold, slug |-> "classic-kanjivaram-gold",
        description |-> Some(PureSilk), vendor_slug |-> "kanjivaram-katha",
        price_in_paise |-> 1299900, saree_type |-> "Kanjivaram",
        color |-> Some("Indigo"), material |-> Some("Silk"),
        occasion |-> Some("Festive"), care |-> Some("Dry clean only"),
        images |-> <<"https://images.unsplash.com/photo-1610563166150-6ed79b3b6d62?q=80&w=1200&auto=format&fit=crop">>,
        stock |-> 5],
       [title |-> SummerBreezeCotton, slug |-> "summer-breeze-cotton",
        description |-> Some(LightweightCotton), vendor_slug |-> "cotton-looms",
        price_in_paise |-> 299900, saree_type |-> "Cotton",
        color |-> Some("Saffron"), material |-> Some("Cotton"),
        occasion |-> Some("Casual"), care |-> Some("Machine wash gentle"),
        images |-> <<"https://images.unsplash.com/photo-1585487000160-6f1a5e60e1f9?q=80&w=1200&auto=format&fit=crop">>,
        stock |-> 20] >>

SampleReviews ==
    << [product_slug |-> "royal-banarasi-brocade", rating |-> 5,
        comment |-> Some("Stunning craftsmanship!"), author_name |-> Some("Asha")],
       [product_slug |-> "classic-kanjivaram-gold", rating |-> 4,
        comment |-> Some("Luxurious and elegant."), author_name |-> Some("Meera")] >>

SampleCategories ==
    << [name |-> "Banarasi", slug |-> "banarasi"],
       [name |-> "Kanjivaram", slug |-> "kanjivaram"],
       [name |-> "Cotton", slug |-> "cotton"],
       [name |-> "Silk", slug |-> "silk"],
       [name |-> "Organza", slug |-> "organza"] >>

Samples(kind) ==
    CASE kind = "category" -> SampleCategories
      [] kind = "vendor"   -> SampleVendors
      [] kind = "product"  -> SampleProducts
      [] kind = "review"   -> SampleReviews

NoneCreated == [categories |-> 0, vendors |-> 0, products |-> 0, reviews |-> 0]

\* A worker that runs no seed request.
SeedIdle == [stage |-> 0, i |-> 0, created |-> NoneCreated]

\* seed_data runs on a worker thread, one store round trip at a time. A worker's
\* position: stage 0 is idle, stage k in 1..4 is at kind SeedKinds[k] (i = 0:
\* about to read the collection, i >= 1: about to insert sample i), stage 5 is
\* about to return.
SeedBegin(s) ==
    /\ seed[s].stage = 0
    /\ IF ~db
       THEN /\ resp' = Fail("seed_data", <<>>, "StoreUnavailable")
            /\ UNCHANGED <<db, store, seed>>
       ELSE /\ seed' = [seed EXCEPT ![s] = [stage |-> 1, i |-> 0, created |-> NoneCreated]]
            /\ UNCHANGED <<db, store, resp>>

\* existing = list(db[kind].find({})); if not existing: ...
SeedCheck(s) ==
    /\ seed[s].stage \in 1..4
    /\ seed[s].i = 0
    /\ LET existing == store[SeedKinds[seed[s].stage]]
       IN  seed' = [seed EXCEPT ![s] =
                       IF existing = <<>>
                       THEN [@ EXCEPT !.i = 1]
                       ELSE [@ EXCEPT !.stage = @ + 1]]
    /\ UNCHANGED <<db, store, resp>>

\* create_document(kind, sample); created[...] += 1
SeedInsert(s) ==
    /\ seed[s].stage \in 1..4
    /\ seed[s].i >= 1
    /\ LET kind == SeedKinds[seed[s].stage]
           last == seed[s].i = Len(Samples(kind))
       IN  /\ create_document(kind, Samples(kind)[seed[s].i])
           /\ seed' = [seed EXCEPT ![s] =
                  [stage |-> IF last THEN @.stage + 1 ELSE @.stage,
                   i |-> IF last THEN 0 ELSE @.i + 1,
                   created |-> [@.created EXCEPT ![Plural(kind)] = @ + 1]]]
    /\ UNCHANGED <<db, resp>>

\* return {"seeded": created}
SeedReturn(s) ==
    /\ seed[s].stage = 5
    /\ resp' = Ok("seed_data", <<>>, [seeded |-> seed[s].created])
    /\ seed' = [seed EXCEPT ![s] = SeedIdle]
    /\ UNCHANGED <<db, store>>

\* The worker threads that may run seed_data.
Seeders == {1, 2}

\* ------------------------------------------------------------ request inputs

VendorSlugs == {"cotton-looms", "varanasi-weaves"}
ProductSlugs == {"summer-breeze-cotton", "royal-banarasi-brocade"}

CottonLooms == [store_name |-> "Cotton Looms", slug |-> "cotton-looms"]

VaranasiWeaves ==
    [store_name |-> "Varanasi Weaves", slug |-> "varanasi-weaves", verified |-> TRUE]

\* Request bodies: valid ones, and ones the schema rejects.
VendorBodies ==
    { CottonLooms, VaranasiWeaves,
      [slug |-> "cotton-looms"],
      [store_name |-> "Cotton Looms", slug |-> "cotton-looms",
       membership_status |-> "gold"] }

SummerBreeze ==
    [title |-> SummerBreezeCotton, slug |-> "summer-breeze-cotton",
     vendor_slug |-> "cotton-looms", price_in_paise |-> 299900,
     saree_type |-> "Cotton"]

RoyalBrocade ==
    [title |-> RoyalBanarasiBrocade, slug |-> "royal-banarasi-brocade",
     description |-> Some(RichZariWork), vendor_slug |-> "varanasi-weaves",
     price_in_paise |-> 899900, saree_type |-> "Banarasi",
     color |-> Some("Maroon"), stock |-> 8]

ProductBodies ==
    { SummerBreeze, RoyalBrocade,
      [SummerBreeze EXCEPT !.price_in_paise = 0 - 1],
      [f \in DOMAIN SummerBreeze \ {"vendor_slug"} |-> SummerBreeze[f]] }

Ratings == {0, 1, 5, 6}

ReviewBodies ==
    { [product_slug |-> ps, rating |-> r] :
          ps \in {"royal-banarasi-brocade", "no-such-product"}, r \in Ratings }
    \cup { [rating |-> 5] }

AshaOrder ==
    [buyer_name |-> "Asha", buyer_email |-> "asha@example.com",
     vendor_slug |-> "varanasi-weaves",
     items |-> << [product_slug |-> "royal-banarasi-brocade", quantity |-> 1,
                   price_in_paise |-> 899900] >>,
     total_in_paise |-> 899900]

MeeraOrder ==
    [buyer_name |-> "Meera", buyer_email |-> "meera@example.com",
     vendor_slug |-> "cotton-looms",
     items |-> << [product_slug |-> "summer-breeze-cotton", quantity |-> 2,
                   price_in_paise |-> 299900] >>,
     total_in_paise |-> 599800, status |-> "paid"]

OrderBodies == { AshaOrder, [status |-> "lost"] @@ AshaOrder }

Limits == {0, 1, 24, 101}

\* --------------------------------------------------------- the specifications

EmptyStore == [k \in Kinds |-> <<>>]

TotalDocs == Len(store["category"]) + Len(store["vendor"]) + Len(store["product"])
             + Len(store["review"]) + Len(store["order"])

Room == TotalDocs < MaxDocs

Idle == [s \in Seeders |-> SeedIdle]
NoResponse == Ok("none", <<>>, <<>>)

\* The process starts with the store initialized or not, and stays so.
Init ==
    /\ db \in BOOLEAN
    /\ store = EmptyStore
    /\ seed = Idle
    /\ resp = NoResponse

InitUp ==
    /\ db = TRUE
    /\ store = EmptyStore
    /\ seed = Idle
    /\ resp = NoResponse

Reads(limits, texts, types) ==
    \/ \E limit \in limits, q \in texts, saree_type \in types :
           list_products(q, saree_type, None, None, None, limit)
    \/ \E slug \in ProductSlugs : get_product(slug)
    \/ \E limit \in limits : list_vendors(limit)
    \/ \E slug \in VendorSlugs : get_vendor(slug)
    \/ \E slug \in ProductSlugs, limit \in limits : list_reviews(slug, limit)
    \/ \E limit \in limits : list_categories(limit)

Creates(products, vendors, reviews, orders) ==
    \/ \E body \in products : create_product(body, Room)
    \/ \E body \in vendors : create_vendor(body, Room)
    \/ \E body \in reviews : create_review(body, Room)
    \/ \E body \in orders : create_order(body, Room)

Seeding(workers) ==
    \E s \in workers : SeedBegin(s) \/ SeedCheck(s) \/ SeedInsert(s) \/ SeedReturn(s)

\* Every operation: one seeding worker, one valid body of each kind.
Next ==
    \/ Reads({1, 24}, {None}, {None})
    \/ Creates({SummerBreeze}, {CottonLooms},
               {[product_slug |-> "summer-breeze-cotton", rating |-> 5]}, {MeeraOrder})
    \/ Seeding({1})

Spec == Init /\ [][Next]_vars

\* The handlers without seeding, on valid and invalid requests.
NextApi ==
    \/ Reads(Limits, {None, Some(RoyalBanarasiBrocade)}, {None, Some("Cotton")})
    \/ Creates(ProductBodies, VendorBodies, ReviewBodies, OrderBodies)

SpecApi == Init /\ [][NextApi]_vars

\* Concurrent seed requests.
NextSeedRace == Seeding(Seeders)

SpecSeedRace == InitUp /\ [][NextSeedRace]_vars

\* A vendor's page: vendors, products of which the first MaxDocs reference any
\* vendor and the later ones all the same vendor, and the vendor reads.
NextVendorView ==
    \/ \E body \in {CottonLooms, VaranasiWeaves} :
           create_vendor(body, Len(store["vendor"]) < MaxDocs)
    \/ \E body \in {SummerBreeze, RoyalBrocade} :
           create_product(body,
               /\ Len(store["product"]) < MaxStitch
               /\ body # SummerBreeze => Len(store["product"]) < MaxDocs)
    \/ \E slug \in VendorSlugs : get_vendor(slug)

SpecVendorView == InitUp /\ [][NextVendorView]_vars

BrocadeReview == [product_slug |-> "royal-banarasi-brocade", rating |-> 5]

OtherReviews ==
    { [product_slug |-> "summer-breeze-cotton", rating |-> 4,
       comment |-> Some("Light.")],
      [product_slug |-> "no-such-product", rating |-> 1] }

\* A product's page: products, reviews of which the first MaxDocs reference any
\* product and the later ones all the same product, and the product reads.
NextProductView ==
    \/ \E body \in {SummerBreeze, RoyalBrocade} :
           create_product(body, Len(store["product"]) < MaxDocs)
    \/ \E body \in {BrocadeReview} \cup OtherReviews :
           create_review(body,
               /\ Len(store["review"]) < MaxStitch
               /\ body # BrocadeReview => Len(store["review"]) < MaxDocs)
    \/ \E slug \in ProductSlugs : get_product(slug)

SpecProductView == InitUp /\ [][NextProductView]_vars

Text(str) ==
    CASE str = "silk" -> <<"s", "i", "l", "k">>
      [] str = "Silk" -> <<"S", "i", "l", "k">>
      [] str = "SILK" -> <<"S", "I", "L", "K">>
      [] str = "s.l"  -> <<"s", ".", "l">>
      [] str = "."    -> <<".">>
      [] str = "Ab"   -> <<"A", "b">>
      [] str = "ab"   -> <<"a", "b">>
      [] str = "Cot"  -> <<"C", "o", "t">>
      [] str = "Sol"  -> <<"S", "o", "l">>
      [] str = ""     -> <<>>

\* Products that differ in the fields the search reads.
SearchBodies ==
    { [title |-> Text("Silk"), slug |-> "p1", vendor_slug |-> "cotton-looms",
       price_in_paise |-> 100, saree_type |-> "Cotton", color |-> Some("Red")],
      [title |-> Text("Ab"), slug |-> "p2", description |-> Some(Text("silk")),
       vendor_slug |-> "cotton-looms", price_in_paise |-> 100,
       saree_type |-> "cotton"],
      [title |-> Text("Sol"), slug |-> "p3", description |-> Some(Text("Ab")),
       vendor_slug |-> "cotton-looms", price_in_paise |-> 100,
       saree_type |-> "Cotton", material |-> Some("Silk"),
       occasion |-> Some("Wedding")] }

SearchTexts == {None, Some(Text("")), Some(Text("SILK")), Some(Text("ab")),
                Some(Text("s.l")), Some(Text("."))}

\* The product search: products and list_products on every combination of
\* its parameters.
NextSearch ==
    \/ \E body \in SearchBodies : create_product(body, Room)
    \/ \E q \in SearchTexts,
          saree_type \in {None, Some(""), Some("Cotton"), Some("cotton")},
          color \in {None, Some("Red")},
          material \in {None, Some("Silk")},
          occasion \in {None, Some("Wedding")},
          limit \in {1, 2, 100} :
           list_products(q, saree_type, color, material, occasion, limit)

SpecSearch == InitUp /\ [][NextSearch]_vars

\* ------------------------------------------------------------- properties

ListOps == {"list_products", "list_vendors", "list_reviews", "list_categories"}
GetOps == {"get_product", "get_vendor"}
ReadOps == ListOps \cup GetOps
CreateOps == {"create_product", "create_vendor", "create_review", "create_order"}

KindOf(op) ==
    CASE op = "create_product" -> "product"
      [] op = "create_vendor"  -> "vendor"
      [] op = "create_review"  -> "review"
      [] op = "create_order"   -> "order"

C2_CreatesFailWithoutStore ==
    ~db =>
        /\ store = EmptyStore
        /\ (resp.op \in CreateOps /\ Validate(KindOf(resp.op), resp.args).ok) =>
               (resp.err = "StoreUnavailable" /\ resp.out = <<>>)
        /\ (resp.op \in ReadOps /\ resp.err = "none") =>
               resp.out \in {<<>>, DefaultCategories}

C2_Witness ==
    ~db /\ resp.op = "create_order" /\ resp.err = "StoreUnavailable"

Slug(d) == d["slug"]

\* C8: no two persisted vendors share a slug and no two persisted products
\* share a slug.
C8_SlugsUnique ==
    \A kind \in {"vendor", "product"} :
        \A i, j \in 1..Len(store[kind]) :
            i # j => Slug(store[kind][i]) # Slug(store[kind][j])

IsPrefix(s, t) == Len(s) <= Len(t) /\ SubSeq(t, 1, Len(s)) = s

\* What a served create_review request has stored: the body, the defaults of the
\* fields it omits, and the identifier that the response returns.
ReviewPersisted(body, before, after, out) ==
    /\ after["review"] = Append(before["review"], after["review"][Len(after["review"])])
    /\ \A k \in Kinds \ {"review"} : after[k] = before[k]
    /\ LET d == after["review"][Len(after["review"])]
       IN  /\ \A f \in DOMAIN body : d[f] = body[f]
           /\ DOMAIN d = Fields("review") \cup {"_id"}
           /\ out = [id |-> ObjectIdStr(d["_id"])]

\* C9: a create_review request with a rating outside 1..5 fails with a
\* ValidationError and leaves the store unchanged; with product_slug present and
\* a rating in 1..5 it passes validation and, on an initialized store, persists
\* exactly one review document, whether or not product_slug names a product.
C9_ReviewRating ==
    [][ (resp'.op = "create_review" /\ "rating" \in DOMAIN resp'.args) =>
          LET body == resp'.args
          IN  IF body.rating < 1 \/ body.rating > 5
              THEN resp'.err = "ValidationError" /\ store' = store
              ELSE "product_slug" \in DOMAIN body =>
                      IF db
                      THEN /\ resp'.err = "none"
                           /\ ReviewPersisted(body, store, store', resp'.out)
                      ELSE resp'.err = "StoreUnavailable" /\ store' = store
      ]_vars

C9_Witness ==
    /\ resp.op = "create_review" /\ resp.err = "none"
    /\ resp.args.product_slug = "no-such-product" /\ resp.args.rating = 5
    /\ store["product"] = <<>>
    /\ Len(store["review"]) = 2

\* The persisted document of a kind that an output document d renders: same
\* fields and values, the identifier as the string field id.
Renders(d, kind) ==
    \E n \in 1..Len(store[kind]) :
        LET x == store[kind][n]
        IN  /\ d["id"] = ObjectIdStr(x["_id"])
            /\ \A f \in DOMAIN x \ {"_id"} : f \in DOMAIN d /\ d[f] = x[f]

\* An output document: never the field _id; when it comes from the store, the
\* field id, holding the string form of a persisted document's identifier.
Normalized(d, kind) ==
    /\ "_id" \notin DOMAIN d
    /\ db => ("id" \in DOMAIN d /\ Renders(d, kind))

ListedKind(op) ==
    CASE op = "list_products"   -> "product"
      [] op = "list_vendors"    -> "vendor"
      [] op = "list_reviews"    -> "review"
      [] op = "list_categories" -> "category"

\* C6: every document a read operation returns, at the top level or embedded
\* under reviews or products, lacks the field _id; every such document that was
\* read from the store carries its identifier as the string field id.
C6_OutputNormalized ==
    (resp.op \in ReadOps /\ resp.err = "none") =>
        CASE resp.op \in ListOps ->
                \A n \in 1..Len(resp.out) : Normalized(resp.out[n], ListedKind(resp.op))
          [] resp.op = "get_product" ->
                /\ Normalized(resp.out, "product")
                /\ \A n \in 1..Len(resp.out["reviews"]) :
                       Normalized(resp.out["reviews"][n], "review")
          [] resp.op = "get_vendor" ->
                /\ Normalized(resp.out, "vendor")
                /\ \A n \in 1..Len(resp.out["products"]) :
                       Normalized(resp.out["products"][n], "product")

C6_Witness ==
    /\ resp.op = "get_vendor" /\ resp.err = "none"
    /\ Len(resp.out["products"]) >= 1
    /\ resp.out["products"][1]["id"] = "product-1"

\* C7: a persisted document stays in its collection, at its place, with its
\* identifier and field values, whatever operation runs; creating an order
\* leaves every product's stock as it was, and reads leave the store as it was.
C7_AppendOnly ==
    [][\A k \in Kinds : IsPrefix(store[k], store'[k])]_vars

C7_Witness ==
    /\ Len(store["order"]) >= 1 /\ Len(store["product"]) >= 1
    /\ store["order"][1]["items"][1]["product_slug"] = store["product"][1]["slug"]
    /\ store["product"][1]["stock"] = 10
    /\ resp.op = "get_product" /\ resp.err = "none"

Copies(kind, sample) ==
    Cardinality({n \in 1..Len(store[kind]) :
        \A f \in DOMAIN sample :
            f \in DOMAIN store[kind][n] /\ store[kind][n][f] = sample[f]})

\* C10: however seed requests interleave, no collection holds more than one
\* copy of a sample document.
C10_NoSampleTwice ==
    \A n \in 1..Len(SeedKinds) :
        \A i \in 1..Len(Samples(SeedKinds[n])) :
            Copies(SeedKinds[n], Samples(SeedKinds[n])[i]) <= 1

\* The places in a collection of the documents whose field f holds v.
Places(kind, f, v) == {n \in 1..Len(store[kind]) : store[kind][n][f] = v}

\* The k-th smallest element of a set of places.
Nth(places, k) ==
    CHOOSE n \in places : Cardinality({m \in places : m <= n}) = k

\* d is the output form of the persisted document x: the same fields and values
\* but for the identifier, which is the string field id, and the embedded fields.
OutputOf(d, x, embedded) ==
    /\ DOMAIN d = ((DOMAIN x \ {"_id"}) \cup {"id"}) \cup embedded
    /\ d["id"] = ObjectIdStr(x["_id"])
    /\ \A f \in DOMAIN x \ {"_id"} : d[f] = x[f]

\* The embedded list holds, in insertion order, the first `cap` persisted
\* documents of a kind whose field f holds v, each in its output form.
Embeds(list, kind, f, v, cap) ==
    LET places == Places(kind, f, v)
    IN  /\ Len(list) = IF Cardinality(places) <= cap THEN Cardinality(places) ELSE cap
        /\ \A k \in 1..Len(list) : OutputOf(list[k], store[kind][Nth(places, k)], {})

\* C3: get_vendor(slug) of an existing vendor returns a persisted vendor of that
\* slug with the field products, which holds exactly the persisted products
\* whose vendor_slug is slug, the first 50 when there are more, in insertion
\* order, and is the empty sequence when there are none.
C3_VendorProducts ==
    (resp.op = "get_vendor" /\ db) =>
        LET slug == resp.args.slug
        IN  IF Places("vendor", "slug", slug) = {}
            THEN resp.err = "NotFound"
            ELSE /\ resp.err = "none"
                 /\ \E n \in Places("vendor", "slug", slug) :
                        OutputOf(resp.out, store["vendor"][n], {"products"})
                 /\ Embeds(resp.out["products"], "product", "vendor_slug", slug, 50)

C3_Witness ==
    /\ resp.op = "get_vendor" /\ resp.err = "none"
    /\ resp.args.slug = "cotton-looms"
    /\ Cardinality(Places("product", "vendor_slug", "cotton-looms")) > 50
    /\ store["product"][1]["vendor_slug"] = "varanasi-weaves"
    /\ Len(resp.out["products"]) = 50

\* C4: get_product(slug) of an existing product returns a persisted product of
\* that slug with the field reviews, which holds exactly the persisted reviews
\* whose product_slug is slug, the first 50 when there are more, in insertion
\* order, whether they were created before or after the product, each without
\* any embedded field, and is the empty sequence when there are none.
C4_ProductReviews ==
    (resp.op = "get_product" /\ db) =>
        LET slug == resp.args.slug
        IN  IF Places("product", "slug", slug) = {}
            THEN resp.err = "NotFound"
            ELSE /\ resp.err = "none"
                 /\ \E n \in Places("product", "slug", slug) :
                        OutputOf(resp.out, store["product"][n], {"reviews"})
                 /\ Embeds(resp.out["reviews"], "review", "product_slug", slug, 50)

C4_Witness ==
    /\ resp.op = "get_product" /\ resp.err = "none"
    /\ resp.args.slug = "royal-banarasi-brocade"
    /\ Cardinality(Places("review", "product_slug", "royal-banarasi-brocade")) > 50
    /\ store["review"][1]["product_slug"] = "summer-breeze-cotton"
    /\ Len(resp.out["reviews"]) = 50

\* q is a substring of the text, letter case ignored.
SubstringNoCase(q, text) ==
    \E i \in 0..(Len(text) - Len(q)) :
        \A j \in 1..Len(q) : Lower(q[j]) = Lower(text[i + j])

\* A present parameter: given, and not the empty string.
Given(x) == x # None /\ x[1] # ""
GivenText(x) == x # None /\ x[1] # <<>>

\* The predicate C5 states for a product and the parameters of a request.
Wanted(d, args) ==
    /\ \A f \in {"saree_type", "color", "material", "occasion"} :
           Given(args[f]) =>
               IF f \in OptionalFields THEN d[f] = args[f] ELSE d[f] = args[f][1]
    /\ GivenText(args.q) =>
           \/ SubstringNoCase(args.q[1], d["title"])
           \/ d["description"] # None /\ SubstringNoCase(args.q[1], d["description"][1])

\* C5: list_products returns, in insertion order and truncated to limit, exactly
\* the persisted products that satisfy every present exact-match parameter and,
\* if q is present, hold q as a case-insensitive substring of title or description.
C5_ListProducts ==
    (resp.op = "list_products" /\ resp.err = "none" /\ db) =>
        LET wanted == {n \in 1..Len(store["product"]) :
                           Wanted(store["product"][n], resp.args)}
        IN  /\ Len(resp.out) = IF Cardinality(wanted) <= resp.args.limit
                               THEN Cardinality(wanted) ELSE resp.args.limit
            /\ \A k \in 1..Len(resp.out) :
                   OutputOf(resp.out[k], store["product"][Nth(wanted, k)], {})

====
